---- MODULE Spec2Model ----
(***************************************************************************)
(* Process supervisor of app/core/process_manager.py (ProcessManager).     *)
(*                                                                         *)
(* One supervising thread (the caller: CLI / API layer) issues             *)
(* start_process, stop_process, restart_process, start_all and stop_all.   *)
(* Every successful start_process starts one _monitor_process thread.      *)
(* The threads share process_info, process_handles and self.running with   *)
(* no lock, so every statement that reads or writes shared state is one    *)
(* step and the steps of different threads interleave freely.              *)
(*                                                                         *)
(* POSIX branch of the code (os.name != 'nt').  A sleep and the psutil     *)
(* sampling change no modelled state and are folded into the next step.    *)
(***************************************************************************)
EXTENDS Integers, Sequences, FiniteSets, TLC

\* ---- bounds ----
MaxSpawns == 2          \* OS processes spawned in one behaviour
MaxRestarts == 1        \* largest max_restarts drawn for the configuration

\* ---- the registry ----
SupervisedNames == {"api_server"}

\* the names registered by load_default_configs, in registration order
DefaultOrder == <<"api_server", "celery_worker", "celery_beat", "celery_flower">>

\* a name registered later through the API, after the default ones
KnownOrder == DefaultOrder \o <<"custom_worker">>

\* the names of a registry with several processes (bulk operations)
BulkNames == {"api_server", "celery_worker", "celery_beat"}

\* the priority values drawn for their configurations
Priorities == 1..3

Pids == 1..MaxSpawns
NoPid == 0
Caller == 0
Threads == {Caller} \cup Pids

VARIABLES
  processes,        \* self.processes: name -> ProcessConfig
  process_info,     \* self.process_info: name -> ProcessInfo
  process_handles,  \* self.process_handles: name -> Popen (NoPid: no entry)
  running,          \* self.running
  os,               \* the operating system's view of every spawned process
  pid_files,        \* contents of the pid file of each name (NoPid: no file)
  th,               \* program counter and locals of every thread
  exits,            \* history: unexpected exits of the tracked process of a name
                    \* since its last manual start
  stopDone,         \* history: the pid that stop_process stopped before it
                    \* returned True, NoPid once the caller issues a start
  config_file       \* the file config_dir/processes.json

vars == <<processes, process_info, process_handles, running, os, pid_files,
          th, exits, stopDone, config_file>>

shared == <<processes, process_info, process_handles, running, os, pid_files>>

\* locals of a thread.  esc (history): the stop in progress escalated to
\* SIGKILL after its wait timed out; issued (history): the names a bulk
\* operation has called start_process / stop_process for, in order; results:
\* the names with an entry in the results dict of the API handler; target
\* (history): the OS process that was running when disable was called; fresh
\* (history): the registry held none of the names of the file when load_config
\* was called; stopped (history): the value the stop_process of a
\* restart_process returned (dropped at line 270).
IdleCaller == [pc |-> "idle", op |-> "none", name |-> "", force |-> FALSE,
               proc |-> NoPid, queue |-> << >>, ret |-> TRUE, early |-> FALSE,
               quiet |-> FALSE, esc |-> FALSE, issued |-> << >>, results |-> {},
               target |-> NoPid, fresh |-> FALSE,
               stopped |-> TRUE]

NoThread == [pc |-> "none", op |-> "watchdog", name |-> "", force |-> FALSE,
             proc |-> NoPid, queue |-> << >>, ret |-> TRUE, early |-> FALSE,
             quiet |-> FALSE, esc |-> FALSE, issued |-> << >>, results |-> {},
             target |-> NoPid, fresh |-> FALSE,
               stopped |-> TRUE]

\* processes.json does not exist.  saved (history): the configurations of the
\* registry at the save_config that wrote the file.
NoFile == [exists |-> FALSE, entries |-> << >>, saved |-> << >>]

DefaultPriority(n) ==
  CASE n = "api_server" -> 1
    [] n = "celery_worker" -> 2
    [] n = "celery_beat" -> 3
    [] OTHER -> 4

Init ==
  /\ \E ar \in BOOLEAN, mr \in 0..MaxRestarts :
       /\ ar \/ mr = MaxRestarts
       /\ processes = [n \in SupervisedNames |->
                        [enabled |-> TRUE, auto_restart |-> ar, max_restarts |-> mr,
                         priority |-> DefaultPriority(n), pid_file |-> TRUE]]
  /\ process_info = [n \in SupervisedNames |->
                       [status |-> "stopped", pid |-> NoPid, restart_count |-> 0]]
  /\ process_handles = [n \in SupervisedNames |-> NoPid]
  /\ running = FALSE
  /\ os = [h \in Pids |-> [st |-> "none", name |-> ""]]
  /\ pid_files = [n \in SupervisedNames |-> NoPid]
  /\ th = [t \in Threads |-> IF t = Caller THEN IdleCaller ELSE NoThread]
  /\ exits = [n \in SupervisedNames |-> 0]
  /\ stopDone = [n \in SupervisedNames |-> NoPid]
  /\ config_file = NoFile

\* ---- helpers ----
SetThread(t, r) == [th EXCEPT ![t] = r]

SetStatus(n, s) == [process_info EXCEPT ![n].status = s]

SetPid(n, p) == [process_info EXCEPT ![n].pid = p]

\* the pid the OS gives to the next spawned process
FreePids == {h \in Pids : os[h].st = "none"}

NextPid == CHOOSE h \in FreePids : \A k \in FreePids : h <= k

\* a failure inside start_all / stop_all ending the bulk operation (the
\* exception not caught inside start_process / stop_process)
ReturnAbortsBulk(t, from, val, atCheck) ==
  LET r == [th[t] EXCEPT !.ret = val, !.proc = NoPid, !.early = atCheck,
                         !.quiet = FALSE] IN
  IF t # Caller THEN [r EXCEPT !.pc = "w_loop"]
  ELSE IF r.op = "restart" /\ from = "stop" THEN [r EXCEPT !.pc = "rs_start"]
  ELSE IF r.op = "start_all" /\ val THEN [r EXCEPT !.pc = "sa_loop"]
  ELSE IF r.op = "stop_all" /\ val THEN [r EXCEPT !.pc = "so_loop"]
  ELSE IF r.op = "delete" THEN [r EXCEPT !.pc = "dl_del"]
  ELSE [IdleCaller EXCEPT !.pc = "respond", !.ret = val, !.early = atCheck,
                          !.op = r.op, !.esc = r.esc, !.target = r.target,
                          !.name = r.name, !.results = {r.name},
                          !.stopped = r.stopped]

\* where a thread continues when start_process / stop_process returns val:
\* the watchdog goes back to the head of its while loop (continue, or the
\* sampling and the sleep that follow a failed restart), restart_process goes
\* on to its start, start_all / stop_all go on with the next name, the
\* handler delete_process_config goes on to delete the configuration.
\* ret is the value returned; early records that the call returned at its
\* idempotence check (lines 154-156, 217-219); quiet (history) records that no
\* monitor thread was at work when the caller issued the start.
Return(t, from, val, atCheck) ==
  LET r == [th[t] EXCEPT !.ret = val, !.proc = NoPid, !.early = atCheck,
                         !.quiet = FALSE] IN
  IF t # Caller THEN [r EXCEPT !.pc = "w_loop"]
  ELSE IF r.op = "restart" /\ from = "stop" THEN [r EXCEPT !.pc = "rs_start"]
  ELSE IF r.op = "start_all" THEN [r EXCEPT !.pc = "sa_loop"]
  ELSE IF r.op = "stop_all" THEN [r EXCEPT !.pc = "so_loop"]
  ELSE IF r.op = "delete" THEN [r EXCEPT !.pc = "dl_del"]
  ELSE [IdleCaller EXCEPT !.pc = "respond", !.ret = val, !.early = atCheck,
                          !.op = r.op, !.esc = r.esc, !.target = r.target,
                          !.name = r.name, !.results = {r.name},
                          !.stopped = r.stopped]

\* ---- start_process ----
\* line 150: if not config.enabled
Disabled(n) == ~processes[n].enabled

\* the check of line 154 testing the wrong status
AlreadyRunningWrongStatus(n) == process_info[n].status = "starting"

\* line 154: the idempotence check
AlreadyRunning(n) == process_info[n].status = "running"

\* lines 143-159: the checks and info.status = STARTING
StartCheck(t) ==
  LET n == th[t].name IN
  /\ th[t].pc = "sp_check"
  /\ IF n \notin DOMAIN processes \/ Disabled(n)
       THEN /\ th' = SetThread(t, Return(t, "start", FALSE, FALSE))
            /\ UNCHANGED process_info
       ELSE IF AlreadyRunning(n)
         THEN /\ th' = SetThread(t, Return(t, "start", TRUE, TRUE))
              /\ UNCHANGED process_info
         ELSE /\ process_info' = SetStatus(n, "starting")
              /\ th' = SetThread(t, [th[t] EXCEPT !.pc = "sp_spawn"])
  /\ UNCHANGED <<processes, process_handles, running, os, pid_files, exits, stopDone, config_file>>

\* start_process without the handler of lines 204-207: a refused spawn returns
\* False and leaves the status at STARTING
StartSpawnNoExcept(t) ==
  LET n == th[t].name IN
  /\ th[t].pc = "sp_spawn"
  /\ \/ /\ FreePids # {}
        /\ os' = [os EXCEPT ![NextPid] = [st |-> "alive", name |-> n]]
        /\ th' = SetThread(t, [th[t] EXCEPT !.pc = "sp_handle", !.proc = NextPid])
     \/ /\ th' = SetThread(t, Return(t, "start", FALSE, FALSE))
        /\ UNCHANGED os
  /\ UNCHANGED <<processes, process_info, process_handles, running, pid_files, exits, stopDone, config_file>>

\* lines 163-180: open the log file and subprocess.Popen; the OS may refuse
\* (lines 204-207: status FAILED, return False)
StartSpawn(t) ==
  LET n == th[t].name IN
  /\ th[t].pc = "sp_spawn"
  /\ \/ /\ FreePids # {}
        /\ os' = [os EXCEPT ![NextPid] = [st |-> "alive", name |-> n]]
        /\ th' = SetThread(t, [th[t] EXCEPT !.pc = "sp_handle", !.proc = NextPid])
        /\ UNCHANGED process_info
     \/ /\ process_info' = SetStatus(n, "failed")
        /\ th' = SetThread(t, Return(t, "start", FALSE, FALSE))
        /\ UNCHANGED os
  /\ UNCHANGED <<processes, process_handles, running, pid_files, exits, stopDone, config_file>>

\* line 182: self.process_handles[name] = process
StartHandle(t) ==
  /\ th[t].pc = "sp_handle"
  /\ process_handles' = [process_handles EXCEPT ![th[t].name] = th[t].proc]
  /\ th' = SetThread(t, [th[t] EXCEPT !.pc = "sp_pid"])
  /\ exits' = IF t = Caller THEN [exits EXCEPT ![th[t].name] = 0] ELSE exits
  /\ UNCHANGED <<processes, process_info, running, os, pid_files, stopDone, config_file>>

\* line 183: info.pid = process.pid
StartPid(t) ==
  /\ th[t].pc = "sp_pid"
  /\ process_info' = SetPid(th[t].name, th[t].proc)
  /\ th' = SetThread(t, [th[t] EXCEPT !.pc = "sp_running"])
  /\ UNCHANGED <<processes, process_handles, running, os, pid_files, exits, stopDone, config_file>>

\* lines 184-185: info.status = RUNNING
StartRunning(t) ==
  /\ th[t].pc = "sp_running"
  /\ process_info' = SetStatus(th[t].name, "running")
  /\ th' = SetThread(t, [th[t] EXCEPT !.pc = "sp_pidfile"])
  /\ UNCHANGED <<processes, process_handles, running, os, pid_files, exits, stopDone, config_file>>

\* lines 188-190: write the pid file; an I/O error is caught at line 204
StartPidFile(t) ==
  LET n == th[t].name IN
  /\ th[t].pc = "sp_pidfile"
  /\ \/ /\ pid_files' = IF processes[n].pid_file
                          THEN [pid_files EXCEPT ![n] = th[t].proc]
                          ELSE pid_files
        /\ th' = SetThread(t, [th[t] EXCEPT !.pc = "sp_thread"])
        /\ UNCHANGED process_info
     \/ /\ processes[n].pid_file
        /\ process_info' = SetStatus(n, "failed")
        /\ th' = SetThread(t, Return(t, "start", FALSE, FALSE))
        /\ UNCHANGED pid_files
  /\ UNCHANGED <<processes, process_handles, running, os, exits, stopDone, config_file>>

\* lines 193-202: start the monitor thread of the new process, return True
StartThread(t) ==
  LET h == th[t].proc IN
  /\ th[t].pc = "sp_thread"
  /\ th' = [th EXCEPT ![t] = Return(t, "start", TRUE, FALSE),
                      ![h] = [NoThread EXCEPT !.pc = "w_loop", !.name = th[t].name]]
  /\ UNCHANGED <<shared, exits, stopDone, config_file>>

start_process(t) ==
  \/ StartCheck(t) \/ StartSpawn(t) \/ StartHandle(t) \/ StartPid(t)
  \/ StartRunning(t) \/ StartPidFile(t) \/ StartThread(t)

\* ---- the operating system ----
\* SIGKILL to the process group: a live process dies (it stays a zombie until
\* its Popen is polled or waited for); signalling a zombie changes nothing
Killed(h) == [os EXCEPT ![h].st = IF @ = "alive" THEN "zombie" ELSE @]

\* Popen.poll() / Popen.wait() collecting the exit status of a dead child
Reaped(h) == [os EXCEPT ![h].st = IF @ = "zombie" THEN "reaped" ELSE @]

\* os.getpgid(process.pid) raises ProcessLookupError once the child was reaped
PidGone(h) == os[h].st = "reaped"

\* a managed process exits on its own (crash, normal end)
OSExit(h) ==
  /\ os[h].st = "alive"
  /\ os' = [os EXCEPT ![h].st = "zombie"]
  /\ exits' = IF process_handles[os[h].name] = h
                THEN [exits EXCEPT ![os[h].name] = @ + 1]
                ELSE exits
  /\ UNCHANGED <<processes, process_info, process_handles, running, pid_files,
                 th, stopDone, config_file>>

\* ---- stop_process ----
\* the check of line 217 letting a stopped process through
NotRunningOnlyFailed(n) == process_info[n].status = "failed"

\* line 217: the idempotence check
NotRunning(n) == process_info[n].status # "running"

\* lines 211-222: the checks and info.status = STOPPING
StopCheck(t) ==
  LET n == th[t].name IN
  /\ th[t].pc = "st_check"
  /\ IF n \notin DOMAIN process_info
       THEN /\ th' = SetThread(t, Return(t, "stop", FALSE, FALSE))
            /\ UNCHANGED <<process_info, stopDone>>
       ELSE IF NotRunning(n)
         THEN /\ th' = SetThread(t, Return(t, "stop", TRUE, TRUE))
              /\ UNCHANGED <<process_info, stopDone>>
         ELSE /\ process_info' = SetStatus(n, "stopping")
              /\ th' = SetThread(t, [th[t] EXCEPT !.pc = "st_get"])
              /\ UNCHANGED stopDone
  /\ UNCHANGED <<processes, process_handles, running, os, pid_files, exits, config_file>>

\* lines 225-226: process = self.process_handles.get(name)
StopGet(t) ==
  LET h == process_handles[th[t].name] IN
  /\ th[t].pc = "st_get"
  /\ th' = SetThread(t, [th[t] EXCEPT !.proc = h,
                           !.pc = IF h = NoPid THEN "st_stopped" ELSE "st_signal"])
  /\ UNCHANGED <<shared, exits, stopDone, config_file>>

\* lines 227-238: SIGKILL (force) or SIGTERM to the process group.  A process
\* may handle SIGTERM by exiting or may ignore it.  An exception is caught at
\* line 263: return False, the status stays STOPPING.
StopSignal(t) ==
  LET h == th[t].proc IN
  /\ th[t].pc = "st_signal"
  /\ IF PidGone(h)
       THEN /\ th' = SetThread(t, Return(t, "stop", FALSE, FALSE))
            /\ UNCHANGED os
       ELSE IF th[t].force
         THEN /\ os' = Killed(h)
              /\ th' = SetThread(t, [th[t] EXCEPT !.pc = "st_del"])
         ELSE /\ \/ os' = Killed(h)
                 \/ UNCHANGED os
              /\ th' = SetThread(t, [th[t] EXCEPT !.pc = "st_wait"])
  /\ UNCHANGED <<processes, process_info, process_handles, running, pid_files,
                 exits, stopDone, config_file>>

\* lines 241-244: process.wait(timeout=10): the exit status is collected, or
\* the process is still alive at the deadline (TimeoutExpired)
StopWait(t) ==
  LET h == th[t].proc IN
  /\ th[t].pc = "st_wait"
  /\ IF os[h].st = "alive"
       THEN /\ th' = SetThread(t, [th[t] EXCEPT !.pc = "st_kill", !.esc = TRUE])
            /\ UNCHANGED os
       ELSE /\ os' = Reaped(h)
            /\ th' = SetThread(t, [th[t] EXCEPT !.pc = "st_del"])
  /\ UNCHANGED <<processes, process_info, process_handles, running, pid_files,
                 exits, stopDone, config_file>>

\* lines 245-248: escalation to SIGKILL after the timeout
StopKill(t) ==
  LET h == th[t].proc IN
  /\ th[t].pc = "st_kill"
  /\ IF PidGone(h)
       THEN /\ th' = SetThread(t, Return(t, "stop", FALSE, FALSE))
            /\ UNCHANGED os
       ELSE /\ os' = Killed(h)
            /\ th' = SetThread(t, [th[t] EXCEPT !.pc = "st_del"])
  /\ UNCHANGED <<processes, process_info, process_handles, running, pid_files,
                 exits, stopDone, config_file>>

\* line 250: del self.process_handles[name] (KeyError when there is no entry)
StopDel(t) ==
  LET n == th[t].name IN
  /\ th[t].pc = "st_del"
  /\ IF process_handles[n] = NoPid
       THEN /\ th' = SetThread(t, Return(t, "stop", FALSE, FALSE))
            /\ UNCHANGED process_handles
       ELSE /\ process_handles' = [process_handles EXCEPT ![n] = NoPid]
            /\ th' = SetThread(t, [th[t] EXCEPT !.pc = "st_stopped"])
  /\ UNCHANGED <<processes, process_info, running, os, pid_files, exits, stopDone, config_file>>

\* line 252: info.status = STOPPED
StopStopped(t) ==
  /\ th[t].pc = "st_stopped"
  /\ process_info' = SetStatus(th[t].name, "stopped")
  /\ th' = SetThread(t, [th[t] EXCEPT !.pc = "st_pidnone"])
  /\ UNCHANGED <<processes, process_handles, running, os, pid_files, exits, stopDone, config_file>>

\* line 253: info.pid = None
StopPidNone(t) ==
  /\ th[t].pc = "st_pidnone"
  /\ process_info' = SetPid(th[t].name, NoPid)
  /\ th' = SetThread(t, [th[t] EXCEPT !.pc = "st_pidfile"])
  /\ UNCHANGED <<processes, process_handles, running, os, pid_files, exits, stopDone, config_file>>

\* lines 256-261: remove the pid file, return True; an OSError of os.remove
\* (the file exists but cannot be removed) is caught at line 263: return False
StopPidFile(t) ==
  LET n == th[t].name IN
  /\ th[t].pc = "st_pidfile"
  /\ \/ /\ pid_files' = IF processes[n].pid_file
                          THEN [pid_files EXCEPT ![n] = NoPid]
                          ELSE pid_files
        /\ th' = SetThread(t, Return(t, "stop", TRUE, FALSE))
        /\ stopDone' = [stopDone EXCEPT ![n] = th[t].proc]
     \/ /\ processes[n].pid_file /\ pid_files[n] # NoPid
        /\ th' = SetThread(t, Return(t, "stop", FALSE, FALSE))
        /\ UNCHANGED <<pid_files, stopDone>>
  /\ UNCHANGED <<processes, process_info, process_handles, running, os, exits, config_file>>

stop_process(t) ==
  \/ StopCheck(t) \/ StopGet(t) \/ StopSignal(t) \/ StopWait(t) \/ StopKill(t)
  \/ StopDel(t) \/ StopStopped(t) \/ StopPidNone(t) \/ StopPidFile(t)

\* ---- _monitor_process ----
\* the budget of line 292 one restart short
MayRestartOneShort(n) ==
  /\ processes[n].auto_restart
  /\ process_info[n].restart_count < processes[n].max_restarts - 1

\* line 292: the restart budget
MayRestart(n) ==
  /\ processes[n].auto_restart
  /\ process_info[n].restart_count < processes[n].max_restarts

\* line 279: while self.running and name in self.process_handles; the value
\* returned by the start_process of line 299 is dropped
MonitorLoop(w) ==
  LET n == th[w].name IN
  /\ th[w].pc = "w_loop"
  /\ th' = SetThread(w, [th[w] EXCEPT !.ret = FALSE, !.early = FALSE, !.pc =
             IF running /\ process_handles[n] # NoPid THEN "w_get" ELSE "w_exit"])
  /\ UNCHANGED <<shared, exits, stopDone, config_file>>

\* line 281: process = self.process_handles[name]; a KeyError is caught at
\* line 316 and the loop goes on after a sleep
MonitorGet(w) ==
  LET h == process_handles[th[w].name] IN
  /\ th[w].pc = "w_get"
  /\ th' = SetThread(w, [th[w] EXCEPT !.proc = h,
                           !.pc = IF h = NoPid THEN "w_loop" ELSE "w_poll"])
  /\ UNCHANGED <<shared, exits, stopDone, config_file>>

\* line 284: process.poll(); lines 305-314 when the process is still running.
\* After the log of line 288 the loop does not use the handle it read again.
MonitorPoll(w) ==
  LET h == th[w].proc IN
  /\ th[w].pc = "w_poll"
  /\ IF os[h].st = "alive"
       THEN /\ th' = SetThread(w, [th[w] EXCEPT !.pc = "w_loop", !.proc = NoPid])
            /\ UNCHANGED os
       ELSE /\ os' = Reaped(h)
            /\ th' = SetThread(w, [th[w] EXCEPT !.pc = "w_failed", !.proc = NoPid])
  /\ UNCHANGED <<processes, process_info, process_handles, running, pid_files,
                 exits, stopDone, config_file>>

\* line 286: info.status = FAILED
MonitorFailed(w) ==
  /\ th[w].pc = "w_failed"
  /\ process_info' = SetStatus(th[w].name, "failed")
  /\ th' = SetThread(w, [th[w] EXCEPT !.pc = "w_pidnone"])
  /\ UNCHANGED <<processes, process_handles, running, os, pid_files, exits, stopDone, config_file>>

\* line 287: info.pid = None
MonitorPidNone(w) ==
  /\ th[w].pc = "w_pidnone"
  /\ process_info' = SetPid(th[w].name, NoPid)
  /\ th' = SetThread(w, [th[w] EXCEPT !.pc = "w_check"])
  /\ UNCHANGED <<processes, process_handles, running, os, pid_files, exits, stopDone, config_file>>

\* lines 292, 301-303: restart, or give up and leave the loop
MonitorCheck(w) ==
  /\ th[w].pc = "w_check"
  /\ th' = SetThread(w, [th[w] EXCEPT !.pc =
             IF MayRestart(th[w].name) THEN "w_inc" ELSE "w_break"])
  /\ UNCHANGED <<shared, exits, stopDone, config_file>>

\* lines 293-299: info.restart_count += 1, sleep(restart_delay), then the call
\* of start_process
MonitorInc(w) ==
  /\ th[w].pc = "w_inc"
  /\ process_info' = [process_info EXCEPT ![th[w].name].restart_count = @ + 1]
  /\ th' = SetThread(w, [th[w] EXCEPT !.pc = "sp_check"])
  /\ UNCHANGED <<processes, process_handles, running, os, pid_files, exits, stopDone, config_file>>

monitor_process(w) ==
  \/ MonitorLoop(w) \/ MonitorGet(w) \/ MonitorPoll(w) \/ MonitorFailed(w)
  \/ MonitorPidNone(w) \/ MonitorCheck(w) \/ MonitorInc(w)

\* ---- the caller ----
\* the registered names in registration order (dict order)
RegOrder == SelectSeq(KnownOrder, LAMBDA n : n \in DOMAIN processes)

Prio(i) == processes[RegOrder[i]].priority

\* the sort of line 326 left out: the items in dict (registration) order
SortedAscUnsorted(I) ==
  LET idx == SelectSeq([i \in 1..Len(RegOrder) |-> i], LAMBDA i : i \in I)
  IN [k \in DOMAIN idx |-> RegOrder[idx[k]]]

\* sorted(self.processes.items(), key=priority): stable
RECURSIVE SortedAsc(_)
SortedAsc(I) ==
  IF I = {} THEN << >>
  ELSE LET i == CHOOSE i \in I : \A j \in I :
                  Prio(i) < Prio(j) \/ (Prio(i) = Prio(j) /\ i <= j)
       IN <<RegOrder[i]>> \o SortedAsc(I \ {i})

\* reverse=True of line 345 left out
SortedDescNotReversed(I) == SortedAsc(I)

\* sorted(..., reverse=True): descending, equal keys keep their order
RECURSIVE SortedDesc(_)
SortedDesc(I) ==
  IF I = {} THEN << >>
  ELSE LET i == CHOOSE i \in I : \A j \in I :
                  Prio(i) > Prio(j) \/ (Prio(i) = Prio(j) /\ i <= j)
       IN <<RegOrder[i]>> \o SortedDesc(I \ {i})

\* no monitor thread is at work (started and still in its loop)
Quiet == \A w \in Pids : th[w].pc \in {"none", "w_exit", "w_break"}

\* an external caller invokes start_process(name)
CallStart(n) ==
  /\ th[Caller].pc = "idle"
  /\ th' = SetThread(Caller, [IdleCaller EXCEPT !.pc = "sp_check", !.op = "start",
                                !.name = n, !.quiet = Quiet])
  /\ stopDone' = [stopDone EXCEPT ![n] = NoPid]
  /\ UNCHANGED <<shared, exits, config_file>>

\* an external caller invokes stop_process(name, force)
CallStop(n, force) ==
  /\ th[Caller].pc = "idle"
  /\ th' = SetThread(Caller, [IdleCaller EXCEPT !.pc = "st_check", !.op = "stop",
                                !.name = n, !.force = force])
  /\ UNCHANGED <<shared, exits, stopDone, config_file>>

\* lines 267-270: restart_process begins with stop_process(name)
CallRestart(n) ==
  /\ th[Caller].pc = "idle"
  /\ th' = SetThread(Caller, [IdleCaller EXCEPT !.pc = "st_check", !.op = "restart",
                                !.name = n])
  /\ UNCHANGED <<shared, exits, stopDone, config_file>>

\* lines 271-272: sleep(2), return self.start_process(name)
RestartStart ==
  /\ th[Caller].pc = "rs_start"
  /\ th' = SetThread(Caller, [th[Caller] EXCEPT !.pc = "sp_check", !.quiet = Quiet,
                                          !.esc = FALSE,
                                          !.stopped = th[Caller].ret])
  /\ stopDone' = [stopDone EXCEPT ![th[Caller].name] = NoPid]
  /\ UNCHANGED <<shared, exits, config_file>>

\* lines 320-329: start_all sets self.running and sorts by priority
CallStartAll ==
  /\ th[Caller].pc = "idle"
  /\ running' = TRUE
  /\ th' = SetThread(Caller, [IdleCaller EXCEPT !.pc = "sa_loop", !.op = "start_all",
                                !.queue = SortedAsc(DOMAIN RegOrder)])
  /\ UNCHANGED <<processes, process_info, process_handles, os, pid_files,
                 exits, stopDone, config_file>>

\* lines 331-334: for name, config in sorted_processes: if config.enabled: start
StartAllLoop ==
  LET q == th[Caller].queue IN
  /\ th[Caller].pc = "sa_loop"
  /\ IF q = << >>
       THEN /\ th' = SetThread(Caller, IdleCaller)
            /\ UNCHANGED stopDone
       ELSE IF processes[Head(q)].enabled
         THEN /\ th' = SetThread(Caller, [th[Caller] EXCEPT !.pc = "sp_check",
                                            !.name = Head(q), !.queue = Tail(q),
                                            !.quiet = Quiet,
                                            !.issued = Append(@, Head(q))])
              /\ stopDone' = [stopDone EXCEPT ![Head(q)] = NoPid]
         ELSE /\ th' = SetThread(Caller, [th[Caller] EXCEPT !.queue = Tail(q)])
              /\ UNCHANGED stopDone
  /\ UNCHANGED <<shared, exits, config_file>>

\* lines 336-346: stop_all clears self.running and sorts in reverse
CallStopAll(force) ==
  /\ th[Caller].pc = "idle"
  /\ running' = FALSE
  /\ th' = SetThread(Caller, [IdleCaller EXCEPT !.pc = "so_loop", !.op = "stop_all",
                                !.force = force,
                                !.queue = SortedDesc(DOMAIN RegOrder)])
  /\ UNCHANGED <<processes, process_info, process_handles, os, pid_files,
                 exits, stopDone, config_file>>

\* lines 348-349: for name, _ in sorted_processes: self.stop_process(name, force);
\* after the loop the handler stop_processes answers with its results, to
\* which the bulk branch has added nothing (API lines 102-110)
StopAllLoop ==
  LET q == th[Caller].queue IN
  /\ th[Caller].pc = "so_loop"
  /\ IF q = << >>
       THEN th' = SetThread(Caller, [IdleCaller EXCEPT !.pc = "respond",
                                       !.op = "stop_all", !.force = th[Caller].force,
                                       !.issued = th[Caller].issued,
                                       !.results = th[Caller].results])
       ELSE th' = SetThread(Caller, [th[Caller] EXCEPT !.pc = "st_check",
                                       !.name = Head(q), !.queue = Tail(q),
                                       !.esc = FALSE,
                                       !.issued = Append(@, Head(q))])
  /\ UNCHANGED <<shared, exits, stopDone, config_file>>

\* lines 399-403: enable_process
CallEnable(n) ==
  /\ th[Caller].pc = "idle"
  /\ IF n \in DOMAIN processes
       THEN processes' = [processes EXCEPT ![n].enabled = TRUE]
       ELSE UNCHANGED processes
  /\ th' = SetThread(Caller, IdleCaller)
  /\ UNCHANGED <<process_info, process_handles, running, os, pid_files,
                 exits, stopDone, config_file>>

\* lines 405-409: disable_process clears the flag and calls stop_process(name)
CallDisable(n) ==
  /\ th[Caller].pc = "idle"
  /\ n \in DOMAIN processes
  /\ processes' = [processes EXCEPT ![n].enabled = FALSE]
  /\ th' = SetThread(Caller, [IdleCaller EXCEPT !.pc = "st_check", !.op = "disable",
                                !.name = n,
                                !.target = IF process_info[n].status = "running"
                                             THEN process_handles[n] ELSE NoPid])
  /\ UNCHANGED <<process_info, process_handles, running, os, pid_files,
                 exits, stopDone, config_file>>

\* the API handler records the outcome of the command in its results and
\* returns; the supervising caller is free for the next command
Respond ==
  /\ th[Caller].pc = "respond"
  /\ th' = SetThread(Caller, IdleCaller)
  /\ UNCHANGED <<shared, exits, stopDone, config_file>>

\* ---- the specification ----
Next ==
  \/ \E n \in SupervisedNames : CallStart(n)
  \/ \E n \in SupervisedNames, force \in BOOLEAN : CallStop(n, force)
  \/ \E n \in SupervisedNames : CallRestart(n)
  \/ RestartStart
  \/ Respond
  \/ CallStartAll
  \/ StartAllLoop
  \/ \E force \in BOOLEAN : CallStopAll(force)
  \/ StopAllLoop
  \/ \E t \in Threads : start_process(t)
  \/ stop_process(Caller)
  \/ \E w \in Pids : monitor_process(w)
  \/ \E h \in Pids : OSExit(h)

Spec == Init /\ [][Next]_vars

TypeOK ==
  /\ running \in BOOLEAN
  /\ \A n \in SupervisedNames :
       /\ process_info[n].status \in
            {"stopped", "starting", "running", "stopping", "failed"}
       /\ process_info[n].pid \in {NoPid} \cup Pids
       /\ process_handles[n] \in {NoPid} \cup Pids
  /\ \A h \in Pids : os[h].st \in {"none", "alive", "zombie", "reaped"}

\* The supervisor driven by single start / stop commands only (the API layer
\* before any start_all): self.running is never set, so every monitor thread
\* leaves at its first loop test.
NextCalls ==
  \/ \E n \in SupervisedNames : CallStart(n)
  \/ \E n \in SupervisedNames, force \in BOOLEAN : CallStop(n, force)
  \/ Respond
  \/ start_process(Caller)
  \/ stop_process(Caller)
  \/ \E w \in Pids : MonitorLoop(w)
  \/ \E h \in Pids : OSExit(h)

SpecCalls == Init /\ [][NextCalls]_vars

\* The supervisor left alone after one start_all: the monitor threads, the
\* automatic restarts and the exits of the processes, with no further command.
NextWatch ==
  \/ ~running /\ CallStartAll
  \/ StartAllLoop
  \/ \E t \in Threads : start_process(t)
  \/ \E w \in Pids : monitor_process(w)
  \/ \E h \in Pids : OSExit(h)

SpecWatch == Init /\ [][NextWatch]_vars

\* The same supervisor left alone after one start_all, for a configuration
\* whose restart budget is more than one restart (the default of
\* ProcessConfig is 3): automatic restarts are on and max_restarts is one
\* above MaxRestarts.
InitBudget ==
  /\ processes = [n \in SupervisedNames |->
                   [enabled |-> TRUE, auto_restart |-> TRUE,
                    max_restarts |-> MaxRestarts + 1,
                    priority |-> DefaultPriority(n), pid_file |-> TRUE]]
  /\ process_info = [n \in SupervisedNames |->
                       [status |-> "stopped", pid |-> NoPid, restart_count |-> 0]]
  /\ process_handles = [n \in SupervisedNames |-> NoPid]
  /\ running = FALSE
  /\ os = [h \in Pids |-> [st |-> "none", name |-> ""]]
  /\ pid_files = [n \in SupervisedNames |-> NoPid]
  /\ th = [t \in Threads |-> IF t = Caller THEN IdleCaller ELSE NoThread]
  /\ exits = [n \in SupervisedNames |-> 0]
  /\ stopDone = [n \in SupervisedNames |-> NoPid]
  /\ config_file = NoFile

SpecBudget == InitBudget /\ [][NextWatch]_vars

\* The supervisor driven by start, enable, disable and start_all commands,
\* with the monitor threads and the exits of the processes.
NextAdmin ==
  \/ \E n \in SupervisedNames : CallStart(n)
  \/ \E n \in SupervisedNames : CallEnable(n)
  \/ \E n \in SupervisedNames : CallDisable(n)
  \/ CallStartAll
  \/ StartAllLoop
  \/ Respond
  \/ \E t \in Threads : start_process(t)
  \/ stop_process(Caller)
  \/ \E w \in Pids : monitor_process(w)
  \/ \E h \in Pids : OSExit(h)

SpecAdmin == Init /\ [][NextAdmin]_vars

\* the position of a name in the registration order
Pos(n) == CHOOSE i \in DOMAIN DefaultOrder : DefaultOrder[i] = n

\* the pid of n when the names of R were started one after the other in
\* registration order
PidOf(R, n) == Cardinality({m \in R : Pos(m) <= Pos(n)})

\* A registry of several processes whose priorities and enabled flags were
\* set through configurations (add_process, load_config).  The processes of R
\* were started one by one with start_process before any start_all:
\* self.running is False, so their monitor threads have left at the first
\* loop test (line 279).
InitBulk ==
  \E pr \in [BulkNames -> Priorities], en \in [BulkNames -> BOOLEAN],
     R \in SUBSET BulkNames :
    /\ \A n \in R : en[n]
    /\ Cardinality(R) <= MaxSpawns
    /\ processes = [n \in BulkNames |->
                      [enabled |-> en[n], auto_restart |-> TRUE,
                       max_restarts |-> MaxRestarts, priority |-> pr[n],
                       pid_file |-> TRUE]]
    /\ process_info = [n \in BulkNames |->
                         IF n \in R
                           THEN [status |-> "running", pid |-> PidOf(R, n),
                                 restart_count |-> 0]
                           ELSE [status |-> "stopped", pid |-> NoPid,
                                 restart_count |-> 0]]
    /\ process_handles = [n \in BulkNames |-> IF n \in R THEN PidOf(R, n) ELSE NoPid]
    /\ running = FALSE
    /\ os = [h \in Pids |->
               IF \E n \in R : PidOf(R, n) = h
                 THEN [st |-> "alive", name |-> CHOOSE n \in R : PidOf(R, n) = h]
                 ELSE [st |-> "none", name |-> ""]]
    /\ pid_files = [n \in BulkNames |-> IF n \in R THEN PidOf(R, n) ELSE NoPid]
    /\ th = [t \in Threads |->
               IF t = Caller THEN IdleCaller
               ELSE IF \E n \in R : PidOf(R, n) = t
                 THEN [NoThread EXCEPT !.pc = "w_exit", !.ret = FALSE,
                                       !.name = CHOOSE n \in R : PidOf(R, n) = t]
                 ELSE NoThread]
    /\ exits = [n \in BulkNames |-> 0]
    /\ stopDone = [n \in BulkNames |-> NoPid]
    /\ config_file = NoFile

\* nothing has been spawned yet
Fresh == \A h \in Pids : os[h].st = "none"

\* The bulk operations on that registry: start_all boots the supervisor, which
\* is then left to its monitor threads; stop_all is called before any
\* start_all, on the processes that were started one by one and may have
\* exited since.
NextBulk ==
  \/ Fresh /\ ~running /\ CallStartAll
  \/ StartAllLoop
  \/ \E force \in BOOLEAN : ~running /\ CallStopAll(force)
  \/ StopAllLoop
  \/ Respond
  \/ start_process(Caller)
  \/ stop_process(Caller)
  \/ \E w \in Pids : MonitorLoop(w) \/ MonitorGet(w) \/ MonitorPoll(w)
  \/ \E h \in Pids : ~running /\ OSExit(h)

SpecBulk == InitBulk /\ [][NextBulk]_vars

\* ---- the registry and its file ----
RegistryNames == {"api_server", "custom_worker"}

\* those of them that load_default_configs registers
RegistryDefaults == {"api_server"}

\* the runtime state add_process creates (lines 135-139)
FreshInfo == [status |-> "stopped", pid |-> NoPid, restart_count |-> 0]

\* add_process without lines 135-138: the configuration is stored and no
\* runtime state is created
add_processConfigOnly(reg, n, c) ==
  [processes |-> [m \in DOMAIN reg.processes \cup {n} |->
                    IF m = n THEN c ELSE reg.processes[m]],
   process_info |-> reg.process_info]

\* add_process (lines 132-139) on the registry reg: the configuration c is
\* stored under its name n
add_process(reg, n, c) ==
  [processes |-> [m \in DOMAIN reg.processes \cup {n} |->
                    IF m = n THEN c ELSE reg.processes[m]],
   process_info |-> [m \in DOMAIN reg.process_info \cup {n} |->
                       IF m = n THEN FreshInfo ELSE reg.process_info[m]]]

\* json.dump writing a bool the way str() does
BoolTextPython(b) == IF b THEN "True" ELSE "False"

\* json.dump of a bool
BoolText(b) == IF b THEN "true" ELSE "false"

Digits == <<"0", "1", "2", "3", "4", "5", "6", "7", "8", "9">>

\* json.dump of a non-negative int
RECURSIVE IntText(_)
IntText(i) ==
  IF i < 10 THEN Digits[i + 1]
  ELSE IntText(i \div 10) \o Digits[(i % 10) + 1]

\* json.dump of a str (the strings of the model need no escape)
Quote(str) == "\"" \o str \o "\""

\* asdict(config) as json.dump writes it: the JSON object of the
\* configuration c of name n.  pid_file is a path or None; the fields
\* directory, environment, restart_delay, log_file and user are not modelled.
ToJson(n, c) ==
  [name |-> Quote(n), command |-> Quote("python"),
   auto_restart |-> BoolText(c.auto_restart),
   max_restarts |-> IntText(c.max_restarts),
   pid_file |-> IF c.pid_file THEN Quote("pids") ELSE "null",
   priority |-> IntText(c.priority),
   enabled |-> BoolText(c.enabled)]

\* the ints and strs json.load has to read back in this model
JsonInts == 0..9

JsonStrs == RegistryNames \cup {"python", "pids"}

\* json.load accepts the token
JsonToken(tok) ==
  \/ tok \in {"true", "false", "null"}
  \/ \E i \in JsonInts : IntText(i) = tok
  \/ \E str \in JsonStrs : Quote(str) = tok

\* json.load of an int token
IntOf(tok) == CHOOSE i \in JsonInts : IntText(i) = tok

\* the fields of ProcessConfig (lines 31-42) kept in the model, and those
\* among them without a default
ConfigKeys == {"name", "command", "auto_restart", "max_restarts", "pid_file",
               "priority", "enabled"}

RequiredKeys == {"name", "command"}

\* ProcessConfig(**config_dict) (line 391) does not raise TypeError
Accepted(obj) == DOMAIN obj \subseteq ConfigKeys /\ RequiredKeys \subseteq DOMAIN obj

\* config.name of the configuration built from the JSON object
NameOf(obj) == CHOOSE n \in JsonStrs : Quote(n) = obj.name

\* the configuration ProcessConfig(**config_dict) builds from the JSON
\* object, with the defaults of lines 35-42 for the keys left out
FromJson(obj) ==
  [enabled |-> IF "enabled" \in DOMAIN obj THEN obj.enabled = "true" ELSE TRUE,
   auto_restart |-> IF "auto_restart" \in DOMAIN obj THEN obj.auto_restart = "true"
                                                     ELSE TRUE,
   max_restarts |-> IF "max_restarts" \in DOMAIN obj THEN IntOf(obj.max_restarts)
                                                     ELSE 3,
   priority |-> IF "priority" \in DOMAIN obj THEN IntOf(obj.priority) ELSE 999,
   pid_file |-> IF "pid_file" \in DOMAIN obj THEN obj.pid_file # "null" ELSE FALSE]

\* lines 368-374: the file save_config writes for the configurations ps
save_config(ps) ==
  LET o == SelectSeq(KnownOrder, LAMBDA n : n \in DOMAIN ps) IN
  [exists |-> TRUE,
   entries |-> [i \in DOMAIN o |-> [key |-> o[i], obj |-> ToJson(o[i], ps[o[i]])]],
   saved |-> ps]

\* lines 390-392, inside the try of line 386: the first entry ProcessConfig
\* rejects raises, and the handler of line 396 ends the load
RECURSIVE LoadEntries(_, _)
LoadEntries(reg, es) ==
  IF es = << >> THEN reg
  ELSE IF ~Accepted(Head(es).obj) THEN reg
  ELSE LoadEntries(add_process(reg, NameOf(Head(es).obj), FromJson(Head(es).obj)),
                   Tail(es))

\* load_config (lines 378-397): nothing without a file (line 382), nothing
\* when json.load raises (line 388)
load_config(reg, file) ==
  IF ~file.exists THEN reg
  ELSE IF \E i \in DOMAIN file.entries : \E k \in DOMAIN file.entries[i].obj :
            ~JsonToken(file.entries[i].obj[k])
    THEN reg
  ELSE LoadEntries(reg, file.entries)

\* the registry
Registry == [processes |-> processes, process_info |-> process_info]

\* the names of the entries of the file
FileNames == {config_file.entries[i].key : i \in DOMAIN config_file.entries}

\* the configurations callers register
CandidateConfigs ==
  {[enabled |-> TRUE, auto_restart |-> TRUE, max_restarts |-> MaxRestarts,
    priority |-> 1, pid_file |-> TRUE],
   [enabled |-> FALSE, auto_restart |-> FALSE, max_restarts |-> 0,
    priority |-> 2, pid_file |-> FALSE]}

\* the handler add_process_config (API lines 199-223): add_process, save_config
CallAdd(n, c) ==
  /\ th[Caller].pc = "idle"
  /\ processes' = add_process(Registry, n, c).processes
  /\ process_info' = add_process(Registry, n, c).process_info
  /\ config_file' = save_config(processes')
  /\ th' = SetThread(Caller, [IdleCaller EXCEPT !.pc = "respond", !.op = "add",
                                !.name = n])
  /\ UNCHANGED <<process_handles, running, os, pid_files, exits, stopDone>>

\* the handler delete_process_config (API lines 258-267): 404 for a name
\* that is not registered, else stop_process(name)
CallRemove(n) ==
  /\ th[Caller].pc = "idle"
  /\ n \in DOMAIN processes
  /\ th' = SetThread(Caller, [IdleCaller EXCEPT !.pc = "st_check", !.op = "delete",
                                !.name = n])
  /\ UNCHANGED <<shared, exits, stopDone, config_file>>

\* API lines 269-278: the value stop_process returned is dropped; both
\* entries are deleted, the file is saved, the handler answers success
DeleteConfig ==
  LET n == th[Caller].name IN
  /\ th[Caller].pc = "dl_del"
  /\ processes' = [m \in DOMAIN processes \ {n} |-> processes[m]]
  /\ process_info' = [m \in DOMAIN process_info \ {n} |-> process_info[m]]
  /\ config_file' = save_config(processes')
  /\ th' = SetThread(Caller, [IdleCaller EXCEPT !.pc = "respond", !.op = "delete",
                                !.name = n])
  /\ UNCHANGED <<process_handles, running, os, pid_files, exits, stopDone>>

\* a caller invokes save_config
CallSave ==
  /\ th[Caller].pc = "idle"
  /\ config_file' = save_config(processes)
  /\ th' = SetThread(Caller, [IdleCaller EXCEPT !.pc = "respond", !.op = "save"])
  /\ UNCHANGED <<shared, exits, stopDone>>

\* a caller invokes load_config
CallLoad ==
  /\ th[Caller].pc = "idle"
  /\ processes' = load_config(Registry, config_file).processes
  /\ process_info' = load_config(Registry, config_file).process_info
  /\ th' = SetThread(Caller, [IdleCaller EXCEPT !.pc = "respond", !.op = "load",
                                !.fresh = (FileNames \cap DOMAIN processes = {})])
  /\ UNCHANGED <<process_handles, running, os, pid_files, exits, stopDone,
                 config_file>>

\* a JSON object with the required key command left out
Broken(n) == [name |-> Quote(n), enabled |-> "true"]

\* the entries an operator writes into processes.json by hand: for every
\* name a valid or a broken entry, in either order
EditedFiles ==
  LET Entry(n) == {[key |-> n, obj |-> ToJson(n, c)] : c \in CandidateConfigs}
                    \cup {[key |-> n, obj |-> Broken(n)]}
  IN {<<a, b>> : a \in Entry("api_server"), b \in Entry("custom_worker")}
       \cup {<<b, a>> : a \in Entry("api_server"), b \in Entry("custom_worker")}

\* processes.json is edited by hand
EditFile(es) ==
  /\ config_file' = [exists |-> TRUE, entries |-> es, saved |-> << >>]
  /\ UNCHANGED <<shared, th, exits, stopDone>>

\* the configurations load_default_configs registers (lines 84-93)
DefaultConfigs ==
  [n \in RegistryDefaults |->
     [enabled |-> TRUE, auto_restart |-> TRUE, max_restarts |-> MaxRestarts,
      priority |-> DefaultPriority(n), pid_file |-> TRUE]]

\* The registry after construction.
InitRegistry ==
  /\ processes = DefaultConfigs
  /\ process_info = [n \in RegistryDefaults |-> FreshInfo]
  /\ process_handles = [n \in RegistryNames |-> NoPid]
  /\ running = FALSE
  /\ os = [h \in Pids |-> [st |-> "none", name |-> ""]]
  /\ pid_files = [n \in RegistryNames |-> NoPid]
  /\ th = [t \in Threads |-> IF t = Caller THEN IdleCaller ELSE NoThread]
  /\ exits = [n \in RegistryNames |-> 0]
  /\ stopDone = [n \in RegistryNames |-> NoPid]
  /\ config_file = NoFile

\* the program is started again: a new ProcessManager is constructed (lines
\* 57-77, 413) with the default configurations; processes.json is kept
Construct ==
  /\ th[Caller].pc = "idle"
  /\ Fresh
  /\ processes' = DefaultConfigs
  /\ process_info' = [n \in RegistryDefaults |-> FreshInfo]
  /\ UNCHANGED <<process_handles, running, os, pid_files, th, exits, stopDone,
                 config_file>>

\* The configurations and their file, with no process ever started: add,
\* delete (its stop_process finds the process stopped), save, load, edits
\* of the file by hand and restarts of the program.
NextConfig ==
  \/ Construct
  \/ \E n \in RegistryNames, c \in CandidateConfigs : CallAdd(n, c)
  \/ \E n \in RegistryNames : CallRemove(n)
  \/ StopCheck(Caller)
  \/ DeleteConfig
  \/ CallSave
  \/ CallLoad
  \/ \E es \in EditedFiles : EditFile(es)
  \/ Respond

SpecConfig == InitRegistry /\ [][NextConfig]_vars

\* The registry with its processes, before any start_all (self.running is
\* False and every monitor thread leaves at its first loop test): single
\* start and stop commands, add, delete and load.
NextRegistry ==
  \/ \E n \in RegistryNames : CallStart(n)
  \/ \E n \in RegistryNames, force \in BOOLEAN : CallStop(n, force)
  \/ \E n \in RegistryNames, c \in CandidateConfigs : CallAdd(n, c)
  \/ \E n \in RegistryNames : CallRemove(n)
  \/ DeleteConfig
  \/ CallLoad
  \/ Respond
  \/ start_process(Caller)
  \/ stop_process(Caller)
  \/ \E w \in Pids : MonitorLoop(w)
  \/ \E h \in Pids : OSExit(h)

SpecRegistry == InitRegistry /\ [][NextRegistry]_vars

\* ---- properties ----
Status(n) == process_info[n].status

\* a monitor thread that was started and has not left its loop
Active(w) == th[w].pc \notin {"none", "w_exit", "w_break"}

\* the OS process tracked for n is alive
TrackedAlive(n) ==
  /\ process_handles[n] # NoPid
  /\ os[process_handles[n]].st = "alive"

\* the thread is inside the body of stop_process, past its checks
StopPcs == {"st_get", "st_signal", "st_wait", "st_kill", "st_del",
            "st_stopped", "st_pidnone", "st_pidfile"}

\* C1: once stop_process has stopped a process and returned success, the
\* process is not started again (status Starting or Running, an OS process
\* spawned after the one that was stopped) until a caller issues a start: the
\* exit caused by the stop is never taken for an unexpected exit and answered
\* with an automatic restart.
C1_StopNotRacedByAutoRestart ==
  \A n \in SupervisedNames :
    stopDone[n] # NoPid =>
      /\ Status(n) \notin {"starting", "running"}
      /\ \A h \in Pids : h > stopDone[n] => os[h].st = "none"

C3_RestartCountWithinBudget ==
  \A n \in SupervisedNames :
    Status(n) # "failed" =>
      process_info[n].restart_count <= processes[n].max_restarts

\* C4: when a start that the caller issued while no monitor thread was at
\* work has spawned the process and returns success, the restart count is 0.
C4_ManualStartResetsCount ==
  [][(/\ th[Caller].pc = "sp_thread"
      /\ th'[Caller].pc # "sp_thread"
      /\ th[Caller].quiet)
       => process_info'[th[Caller].name].restart_count = 0]_vars

\* C5: a monitor thread polls only the OS process it was started for (the
\* thread started for pid w is thread w), and no two monitor threads are
\* polling for the same process name at the same moment.
C5_OneWatchdogPerProcess ==
  /\ \A w \in Pids : th[w].pc = "w_poll" => th[w].proc = w
  /\ \A n \in SupervisedNames :
       Cardinality({w \in Pids : th[w].name = n /\ th[w].pc = "w_poll"}) <= 1

\* C6: when the caller is idle and the OS process of a process recorded as
\* Running has exited, a monitor thread is active for it (so that the exit
\* will be reconciled).
C6_ExitIsReconciled ==
  \A n \in SupervisedNames :
    (/\ th[Caller].pc = "idle"
     /\ Status(n) = "running"
     /\ process_handles[n] # NoPid
     /\ os[process_handles[n]].st \in {"zombie", "reaped"})
    => \E w \in Pids : th[w].name = n /\ Active(w)

\* C7: start_process on an enabled process whose status is Running returns
\* True and changes neither the runtime state, the handle table, the OS
\* processes, the pid files nor the set of monitor threads.
C7_StartRunningIsNoop ==
  [][\A t \in Threads :
       (/\ th[t].pc = "sp_check"
        /\ th'[t] # th[t]
        /\ th[t].name \in DOMAIN processes
        /\ processes[th[t].name].enabled
        /\ Status(th[t].name) = "running")
       => /\ th'[t].ret /\ th'[t].early
          /\ th'[t].pc \in {"respond", "w_loop", "sa_loop"}
          /\ process_info' = process_info
          /\ process_handles' = process_handles
          /\ os' = os
          /\ pid_files' = pid_files
          /\ \A w \in Pids \ {t} : th'[w] = th[w]]_vars

C7_Witness ==
  /\ th[Caller].pc = "respond" /\ th[Caller].op = "start"
  /\ th[Caller].early /\ th[Caller].ret
  /\ \E n \in SupervisedNames :
       /\ Status(n) = "running" /\ TrackedAlive(n)
       /\ Cardinality({h \in Pids : os[h].st # "none"}) = 1

\* C8: stop_process on a process whose status is Stopped returns True and
\* changes neither the runtime state, the handle table, the OS processes
\* (no signal) nor the pid files.
C8_StopStoppedIsNoop ==
  [][(/\ th[Caller].pc = "st_check"
      /\ th'[Caller] # th[Caller]
      /\ Status(th[Caller].name) = "stopped")
     => /\ th'[Caller].ret /\ th'[Caller].early
        /\ th'[Caller].pc \in {"respond", "rs_start", "so_loop"}
        /\ process_info' = process_info
        /\ process_handles' = process_handles
        /\ os' = os
        /\ pid_files' = pid_files]_vars

C8_Witness ==
  /\ th[Caller].pc = "respond" /\ th[Caller].op = "stop"
  /\ th[Caller].early /\ th[Caller].ret
  /\ \E n \in SupervisedNames :
       /\ Status(n) = "stopped" /\ process_handles[n] = NoPid
       /\ \E h \in Pids : os[h].name = n /\ os[h].st # "alive"

\* C9: once stop_process has sent its signal, the handle it signalled is no
\* longer in the handle table.
C9_HandleClearedBeforeSignal ==
  th[Caller].pc \in {"st_wait", "st_kill", "st_del"}
    => process_handles[th[Caller].name] # th[Caller].proc

\* C10: a stop_process(name, force=True) that found the process Running goes
\* from the signal straight to the clean-up (no wait), and when it returns it
\* returns True with status Stopped, pid cleared and no handle tracked.
C10_ForceStopSucceeds ==
  [][(/\ th[Caller].pc \in StopPcs
      /\ th[Caller].op = "stop"
      /\ th[Caller].force
      /\ th'[Caller].pc # th[Caller].pc)
     => /\ th'[Caller].pc \notin {"st_wait", "st_kill"}
        /\ th'[Caller].pc = "respond" =>
             /\ th'[Caller].ret
             /\ process_info'[th[Caller].name].status = "stopped"
             /\ process_info'[th[Caller].name].pid = NoPid
             /\ process_handles'[th[Caller].name] = NoPid]_vars

\* the pcs of stop_process after its signals: the clean-up
CleanupPcs == {"st_del", "st_stopped", "st_pidnone", "st_pidfile"}

\* C11: a graceful stop_process whose wait timed out sends SIGKILL to the
\* process group and, unless that kill raises, goes on to the clean-up; when
\* such a stop returns it returns True and the status is Stopped.
C11_GracefulStopEscalates ==
  [][LET c == th[Caller] IN
     /\ (c.pc = "st_kill" /\ ~PidGone(c.proc) /\ th'[Caller] # c)
          => /\ os'[c.proc].st # "alive"
             /\ th'[Caller].pc = "st_del"
     /\ (c.pc \in CleanupPcs /\ c.esc /\ ~c.force /\ th'[Caller].pc \notin StopPcs)
          => /\ th'[Caller].ret
             /\ process_info'[c.name].status = "stopped"]_vars

\* C12: (a) when disable_process returns, enabled is False and the OS process
\* that was running when it was called is no longer alive; (b) start_all
\* passes over a disabled configuration without calling start_process; (c) a
\* start_process on a disabled configuration returns False and spawns
\* nothing, changing neither the runtime state nor the handle table.
C12_DisableStopsAndBlocksStart ==
  [][LET c == th[Caller] IN
     /\ (c.op = "disable" /\ c.pc # "respond" /\ th'[Caller].pc = "respond")
          => /\ ~processes'[c.name].enabled
             /\ c.target # NoPid => os'[c.target].st # "alive"
     /\ (c.pc = "sa_loop" /\ c.queue # << >> /\ ~processes[Head(c.queue)].enabled
          /\ th'[Caller] # c)
          => /\ th'[Caller].pc = "sa_loop"
             /\ th'[Caller].queue = Tail(c.queue)
             /\ os' = os /\ process_info' = process_info
     /\ (c.pc = "sp_check" /\ c.name \in DOMAIN processes
          /\ ~processes[c.name].enabled /\ th'[Caller] # c)
          => /\ ~th'[Caller].ret
             /\ th'[Caller].pc \in {"respond", "sa_loop"}
             /\ os' = os /\ process_info' = process_info
             /\ process_handles' = process_handles]_vars

\* the names in a sequence
Range(q) == {q[i] : i \in DOMAIN q}

\* the sequence has no name twice
NoRepeat(q) == \A i, j \in DOMAIN q : q[i] = q[j] => i = j

EnabledNames == {n \in DOMAIN processes : processes[n].enabled}

\* C13: the start commands start_all has issued so far are in ascending
\* priority order and no name was issued twice; the next start is issued
\* whatever the status the previous start_process left (Running or Failed);
\* when start_all ends, exactly the enabled configurations were issued a start.
C13_StartAllAscending ==
  [][LET c == th[Caller] IN
     /\ (th'[Caller].op = "start_all")
          => /\ NoRepeat(th'[Caller].issued)
             /\ \A i, j \in DOMAIN th'[Caller].issued :
                  i < j => processes[th'[Caller].issued[i]].priority
                             <= processes[th'[Caller].issued[j]].priority
     /\ (c.op = "start_all" /\ c.pc = "sa_loop" /\ c.queue # << >>
          /\ processes[Head(c.queue)].enabled /\ th'[Caller] # c)
          => th'[Caller].pc = "sp_check" /\ th'[Caller].name = Head(c.queue)
     /\ (c.op = "start_all" /\ th'[Caller].op # "start_all")
          => Range(c.issued) = EnabledNames]_vars

\* start_all has issued its three starts to priorities given as [3, 1, 2] in
\* registration order, after the start of the first of them failed
C13_Witness ==
  /\ th[Caller].op = "start_all" /\ th[Caller].pc = "sa_loop"
  /\ th[Caller].queue = << >>
  /\ processes["api_server"].priority = 3
  /\ processes["celery_worker"].priority = 1
  /\ processes["celery_beat"].priority = 2
  /\ th[Caller].issued = <<"celery_worker", "celery_beat", "api_server">>
  /\ Status("celery_worker") = "failed"
  /\ Status("celery_beat") = "running"

\* C14: the stop commands stop_all has issued so far are in descending
\* priority order, each name once and each with the force flag of the call;
\* when stop_all ends every registered process was issued a stop and the last
\* one issued has the lowest priority value.
C14_StopAllDescending ==
  [][LET c == th[Caller] IN
     /\ (th'[Caller].op = "stop_all")
          => /\ NoRepeat(th'[Caller].issued)
             /\ \A i, j \in DOMAIN th'[Caller].issued :
                  i < j => processes[th'[Caller].issued[i]].priority
                             >= processes[th'[Caller].issued[j]].priority
     /\ (c.op = "stop_all" /\ c.pc = "so_loop" /\ c.queue # << >> /\ th'[Caller] # c)
          => /\ th'[Caller].pc = "st_check" /\ th'[Caller].name = Head(c.queue)
             /\ th'[Caller].force = c.force
     /\ (c.op = "stop_all" /\ c.pc = "so_loop" /\ th'[Caller].pc = "respond")
          => /\ Range(c.issued) = DOMAIN processes
             /\ \A n \in DOMAIN processes :
                  processes[c.issued[Len(c.issued)]].priority
                    <= processes[n].priority]_vars

\* stop_all has answered after stopping two running processes, with
\* priorities given as [3, 1, 2] in registration order
C14_Witness ==
  /\ th[Caller].op = "stop_all" /\ th[Caller].pc = "respond"
  /\ processes["api_server"].priority = 3
  /\ processes["celery_worker"].priority = 1
  /\ processes["celery_beat"].priority = 2
  /\ th[Caller].issued = <<"api_server", "celery_beat", "celery_worker">>
  /\ stopDone["api_server"] # NoPid /\ stopDone["celery_worker"] # NoPid
  /\ \A h \in Pids : os[h].st # "alive"

\* the pcs of a thread inside start_process or stop_process
CallPcs == {"sp_check", "sp_spawn", "sp_handle", "sp_pid", "sp_running",
            "sp_pidfile", "sp_thread", "st_check"} \cup StopPcs

\* C15: a start_process or stop_process that returns False inside a bulk
\* operation hands control back to the loop with the names still to do
\* untouched; start_all ends only after every enabled configuration was
\* issued a start and stop_all only after every registered process was
\* issued a stop.
C15_BulkNotAbortedByFailure ==
  [][LET c == th[Caller] IN
     /\ (c.op \in {"start_all", "stop_all"} /\ c.pc \in CallPcs
          /\ th'[Caller].pc \notin CallPcs /\ ~th'[Caller].ret)
          => /\ th'[Caller].op = c.op /\ th'[Caller].queue = c.queue
             /\ th'[Caller].issued = c.issued
             /\ th'[Caller].pc = IF c.op = "start_all" THEN "sa_loop" ELSE "so_loop"
     /\ (c.op = "start_all" /\ th'[Caller].op # "start_all")
          => /\ c.pc = "sa_loop" /\ c.queue = << >>
             /\ Range(c.issued) = EnabledNames
     /\ (c.op = "stop_all" /\ c.pc # "respond" /\ th'[Caller].pc \in {"respond", "idle"})
          => /\ c.pc = "so_loop" /\ c.queue = << >>
             /\ Range(c.issued) = DOMAIN processes]_vars

\* stop_all has answered: the first stop it issued failed (the pid file of
\* the stopped process could not be removed) and the last one it issued
\* stopped a running process
C15_Witness ==
  LET c == th[Caller] IN
  /\ c.op = "stop_all" /\ c.pc = "respond" /\ Len(c.issued) = 3
  /\ Status(c.issued[1]) = "stopped" /\ pid_files[c.issued[1]] # NoPid
  /\ stopDone[c.issued[1]] = NoPid
  /\ stopDone[c.issued[3]] # NoPid

\* C16: the results a bulk operation answers with have one entry for every
\* process it operated on: stop_processes with an empty name list answers
\* after stop_all, start_processes with an empty name list answers with the
\* results it holds when it schedules start_all.
C16_BulkReturnsOutcomeMap ==
  LET c == th[Caller] IN
  /\ (c.op = "stop_all" /\ c.pc = "respond") => c.results = Range(c.issued)
  /\ (c.op = "start_all" /\ c.pc = "sa_loop" /\ c.queue = << >>)
       => c.results = Range(c.issued)

\* C17: add_process for a name whose process is Running, called by the
\* handler add_process_config or by load_config, leaves the runtime state of
\* that process (status, pid, restart count) as it was.
C17_AddKeepsRuntimeState ==
  [][(/\ th[Caller].pc = "idle"
      /\ th'[Caller].pc = "respond"
      /\ th'[Caller].op \in {"add", "load"})
     => \A n \in DOMAIN process_info :
          Status(n) = "running"
            => n \in DOMAIN process_info' /\ process_info'[n] = process_info[n]]_vars

\* C18: when the handler delete_process_config comes to delete a
\* configuration whose runtime state is not Stopped, it leaves the
\* configuration and the runtime state in place; when the state is Stopped it
\* deletes both.
C18_RemoveOnlyWhenStopped ==
  [][LET c == th[Caller] IN
     (c.pc = "dl_del" /\ th'[Caller] # c)
       => IF Status(c.name) = "stopped"
            THEN /\ c.name \notin DOMAIN processes'
                 /\ c.name \notin DOMAIN process_info'
            ELSE /\ c.name \in DOMAIN processes'
                 /\ c.name \in DOMAIN process_info']_vars

\* processes.json is as the last save_config wrote it
FileAsSaved ==
  /\ config_file.exists
  /\ config_file.entries = save_config(config_file.saved).entries

\* C19: a load_config of the file as save_config wrote it registers every
\* configuration that was saved with every field as it was saved, and
\* registers nothing else: the configurations of the other names stay.
C19_SaveLoadRoundTrip ==
  [][(/\ th[Caller].pc = "idle"
      /\ th'[Caller].pc = "respond"
      /\ th'[Caller].op = "load"
      /\ FileAsSaved)
     => /\ DOMAIN processes' = DOMAIN processes \cup DOMAIN config_file.saved
        /\ \A n \in DOMAIN processes' :
             processes'[n] = IF n \in DOMAIN config_file.saved
                               THEN config_file.saved[n] ELSE processes[n]]_vars

\* after a restart of the program load_config has registered the saved
\* configuration of a name the registry did not hold, none of its fields at
\* the default of ProcessConfig
C19_Witness ==
  /\ th[Caller].pc = "respond" /\ th[Caller].op = "load" /\ th[Caller].fresh
  /\ FileAsSaved
  /\ DOMAIN config_file.saved = {"custom_worker"}
  /\ DOMAIN processes = RegistryNames
  /\ processes["custom_worker"] = config_file.saved["custom_worker"]
  /\ ~processes["custom_worker"].enabled
  /\ ~processes["custom_worker"].auto_restart
  /\ processes["custom_worker"].max_restarts = 0
  /\ processes["custom_worker"].priority = 2
  /\ ~processes["custom_worker"].pid_file

\* C20: a load_config of a file that json.load can read registers every
\* entry of the file that ProcessConfig accepts, whether it stands before or
\* after an entry that is rejected.
C20_LoadSkipsInvalidEntry ==
  [][(/\ th[Caller].pc = "idle"
      /\ th'[Caller].pc = "respond"
      /\ th'[Caller].op = "load"
      /\ config_file.exists)
     => \A i \in DOMAIN config_file.entries :
          LET obj == config_file.entries[i].obj IN
          Accepted(obj)
            => /\ NameOf(obj) \in DOMAIN processes'
               /\ processes'[NameOf(obj)] = FromJson(obj)]_vars

\* C21: when the OS refuses the spawn in start_process (the step leaves
\* "sp_spawn" without a new process), the status of the name becomes FAILED,
\* the call returns False to its caller, no monitor thread is started and the
\* handle table and the OS processes are left as they were.
C21_SpawnRefused ==
  [][\A t \in Threads :
       (th[t].pc = "sp_spawn" /\ th'[t].pc \notin {"sp_spawn", "sp_handle"})
         => /\ Status(th[t].name)' = "failed"
            /\ process_handles' = process_handles
            /\ os' = os
            /\ \A w \in Pids : w # t => th'[w] = th[w]
            /\ ~th'[t].ret]_vars

\* a start whose spawn was refused has returned False: status FAILED, nothing
\* spawned, no handle, no monitor thread
C21_Witness ==
  /\ th[Caller].pc = "respond" /\ th[Caller].op = "start"
  /\ ~th[Caller].ret /\ ~th[Caller].early
  /\ Status(th[Caller].name) = "failed"
  /\ process_handles[th[Caller].name] = NoPid
  /\ \A h \in Pids : os[h].st = "none" /\ th[h].pc = "none"

\* C22: restart_process reports failure whenever its stop step or its start
\* step failed: a restart that answers True had a stop_process that returned
\* True (ret is the value of the start step, which the call returns).
C22_RestartCombinesResults ==
  (th[Caller].pc = "respond" /\ th[Caller].op = "restart" /\ th[Caller].ret)
    => th[Caller].stopped

\* C23: every change of a status follows an edge of the lifecycle: STOPPED ->
\* STARTING, STARTING -> RUNNING, STARTING -> FAILED, RUNNING -> FAILED,
\* RUNNING -> STARTING, RUNNING -> STOPPING, STOPPING -> STOPPED, FAILED ->
\* STARTING; no step of the supervisor or of a monitor thread makes another.
C23_LifecycleEdgesOnly ==
  [][\A n \in DOMAIN process_info :
       Status(n)' # Status(n)
         => <<Status(n), Status(n)'>> \in
              {<<"stopped", "starting">>, <<"starting", "running">>,
               <<"starting", "failed">>, <<"running", "failed">>,
               <<"running", "starting">>, <<"running", "stopping">>,
               <<"stopping", "stopped">>, <<"failed", "starting">>}]_vars

\* C24: in every reachable state a process whose status is RUNNING has its
\* pid set and a handle in process_handles.
C24_RunningHasPidAndHandle ==
  \A n \in DOMAIN process_info :
    Status(n) = "running"
      => process_info[n].pid # NoPid /\ process_handles[n] # NoPid

\* C25: the pid of a runtime state is present if and only if its status is
\* STARTING, RUNNING or STOPPING (absent when STOPPED or FAILED); stated for
\* the states in which no call and no monitor thread is at work, so that the
\* lines between two assignments of one call are not counted.
C25_PidIffActiveStatus ==
  (th[Caller].pc \in {"idle", "respond"} /\ \A w \in Pids : ~Active(w))
    => \A n \in DOMAIN process_info :
         process_info[n].pid # NoPid
           <=> Status(n) \in {"starting", "running", "stopping"}

\* C26: the names with a configuration are the names with a runtime state:
\* after the construction with the defaults and after every add, load and
\* delete, processes and process_info have the same keys.
C26_ConfigsMatchRuntimeStates ==
  DOMAIN processes = DOMAIN process_info

\* a delete has answered and left only a configuration that was added
C26_Witness ==
  /\ th[Caller].pc = "respond" /\ th[Caller].op = "delete"
  /\ DOMAIN processes = {"custom_worker"}
  /\ DOMAIN process_info = {"custom_worker"}

\* lines 168-202: the local log_file of the start_process that thread t is
\* running holds the log file it opened at line 170 (no line closes it; the
\* file object is dropped with the frame when the call returns)
LogOpen(t) ==
  th[t].pc \in {"sp_handle", "sp_pid", "sp_running", "sp_pidfile", "sp_thread"}

\* C27: the log file opened by start_process is released when the spawned
\* process exits, so the number of open log files never exceeds the number of
\* live managed processes.
C27_LogHandlesBoundedByLive ==
  Cardinality({t \in Threads : LogOpen(t)})
    <= Cardinality({h \in Pids : os[h].st = "alive"})

\* C28: at most one OS process per name is alive and it is the one in
\* process_handles: whenever no call and no monitor thread is at work, every
\* live process is the handle tracked under its name (so no live process is
\* left untracked and no name has two).
C28_LiveProcessesTracked ==
  (th[Caller].pc \in {"idle", "respond"} /\ \A w \in Pids : ~Active(w))
    => \A h \in Pids :
         os[h].st = "alive" => process_handles[os[h].name] = h

\* C29: once stop_all has returned (the caller holds its answer and has
\* issued no new command) no managed OS process is alive and no step spawns
\* one; in particular a monitor thread that was waiting out restart_delay
\* during stop_all does not start the process afterwards.
C29_NothingAliveAfterStopAll ==
  [][(th[Caller].pc = "respond" /\ th[Caller].op = "stop_all")
       => /\ \A h \in Pids : os[h].st # "alive"
          /\ \A h \in Pids : os'[h].st = "alive" => os[h].st = "alive"]_vars

\* C30: whenever start_process returns False, no OS process spawned by that
\* call is left alive: a step that ends a start_process after its spawn
\* (proc is the process it spawned) with the value False leaves that process
\* not alive.
C30_FailedStartLeavesNoProcess ==
  [][\A t \in Threads :
       (/\ th[t].pc \in {"sp_handle", "sp_pid", "sp_running", "sp_pidfile",
                          "sp_thread"}
        /\ th'[t].pc \notin {"sp_handle", "sp_pid", "sp_running", "sp_pidfile",
                             "sp_thread"}
        /\ ~th'[t].ret)
         => os'[th[t].proc].st # "alive"]_vars

\* C31: no OS process is spawned for a configuration whose enabled flag is
\* False, and when disable_process has returned the status of the process is
\* not RUNNING, whatever a monitor thread's automatic restart or another
\* start_process past its enabled check (line 150) is doing meanwhile.
C31_DisabledNeverSpawned ==
  [][/\ \A h \in Pids :
          (os[h].st = "none" /\ os'[h].st = "alive")
            => processes[os'[h].name].enabled
     /\ (th[Caller].pc = "respond" /\ th[Caller].op = "disable")
          => Status(th[Caller].name) # "running"]_vars

\* C32: each unexpected exit of a managed process raises its restart count
\* by one and no more, also when several monitor loops observe the exit:
\* with no command after start_all (the count starts at 0 and every process
\* that is no longer alive has exited on its own) the restart count never
\* exceeds the number of processes of the name that have exited.
C32_OneRestartPerExit ==
  \A n \in DOMAIN process_info :
    process_info[n].restart_count
      <= Cardinality({h \in Pids : os[h].name = n
                                    /\ os[h].st \in {"zombie", "reaped"}})

\* C33: STARTING and STOPPING are transient: whenever no thread is inside a
\* start_process or a stop_process of a name, the status of the name is
\* neither STARTING nor STOPPING; in particular a stop_process that failed
\* has not left STOPPING behind.
C33_StartingStoppingTransient ==
  \A n \in DOMAIN process_info :
    (\A t \in Threads : ~(th[t].pc \in CallPcs /\ th[t].name = n))
      => Status(n) \notin {"starting", "stopping"}

\* C34: for a process with a configured pid file, whenever no call and no
\* monitor thread is at work, the pid file exists only while a handle is
\* tracked for the process and then holds the pid recorded in its runtime
\* state; so none remains after an unexpected exit that ended in FAILED or
\* after a successful stop.
C34_PidFileMatchesTrackedProcess ==
  (th[Caller].pc \in {"idle", "respond"} /\ \A w \in Pids : ~Active(w))
    => \A n \in DOMAIN processes :
         (processes[n].pid_file /\ pid_files[n] # NoPid)
           => /\ process_handles[n] # NoPid
              /\ pid_files[n] = process_info[n].pid

====
